---- MODULE Spec2Model ----
(***************************************************************************)
(* The lexical token of libponyc (src/libponyc/ast/token.c): a pool        *)
(* allocated struct with a kind, a source position, a lazily allocated     *)
(* 64 byte print buffer and an untagged union payload.                     *)
(*                                                                         *)
(* Text is a sequence of byte codes.  A 64 bit machine word is a tuple of  *)
(* four 16 bit limbs, most significant first, so that the whole unsigned   *)
(* 64 bit range is representable.  The union payload is kept as the two    *)
(* words it occupies (w0 at offset 0, w1 at offset 8): string/real/        *)
(* integer.low share w0, str_length/integer.high share w1.                 *)
(***************************************************************************)
EXTENDS Integers, Sequences, FiniteSets, TLC

VARIABLES
  tokens,    \* pool storage of token_t objects, by handle
  live,      \* handles of the token_t objects currently allocated
  bufs,      \* content of the 64 byte pool blocks used as print buffers
  pool64,    \* the 64 byte pool blocks currently allocated
  poolFault, \* TRUE once a block was released that was not allocated
  call,      \* the last call made: operation, token argument, outcome, result
  aborted,   \* TRUE once a pony_assert has failed: the process is gone
  written    \* per handle, the value last stored through each payload setter

vars == <<tokens, live, bufs, pool64, poolFault, call, aborted, written>>

-----------------------------------------------------------------------------
(* Bounds of the model *)

MaxTokens == 2
MaxLine == 2
MaxStrLen == 3

(* Program constants *)

PrintedSize == 64

-----------------------------------------------------------------------------
(* Machine words *)

LimbBase == 2^16
LimbMax == LimbBase - 1

Word(a, b, c, d) == <<a, b, c, d>>
WordOf(n) == <<0, 0, 0, n>>
ZeroWord == WordOf(0)
MaxWord == <<LimbMax, LimbMax, LimbMax, LimbMax>>

\* Quotient and remainder of a word by a small divisor, by long division.
DivModSmall(w, d) ==
  LET r1 == w[1] % d
      x2 == r1 * LimbBase + w[2]
      r2 == x2 % d
      x3 == r2 * LimbBase + w[3]
      r3 == x3 % d
      x4 == r3 * LimbBase + w[4]
  IN  [q |-> <<w[1] \div d, x2 \div d, x3 \div d, x4 \div d>>, r |-> x4 % d]

\* w * m + a modulo 2^64, for small m and a.
MulAddSmall(w, m, a) ==
  LET y4 == w[4] * m + a
      y3 == w[3] * m + (y4 \div LimbBase)
      y2 == w[2] * m + (y3 \div LimbBase)
      y1 == w[1] * m + (y2 \div LimbBase)
  IN  <<y1 % LimbBase, y2 % LimbBase, y3 % LimbBase, y4 % LimbBase>>

\* TRUE when w * m + a does not fit in 64 bits.
MulAddOverflows(w, m, a) ==
  LET y4 == w[4] * m + a
      y3 == w[3] * m + (y4 \div LimbBase)
      y2 == w[2] * m + (y3 \div LimbBase)
      y1 == w[1] * m + (y2 \div LimbBase)
  IN  y1 >= LimbBase

-----------------------------------------------------------------------------
(* Text *)

Take(s, n) == SubSeq(s, 1, IF n < Len(s) THEN n ELSE Len(s))

CH_NUL == 0
CH_QUOTE == 34
CH_DOT == 46
CH_ZERO == 48
CH_BACKSLASH == 92
CH_e == 101

Str_EOF == <<69, 79, 70>>
Str_LEX_ERROR == <<76, 69, 88, 95, 69, 82, 82, 79, 82>>
Str_Unknown_token_ == <<85, 110, 107, 110, 111, 119, 110, 95, 116, 111, 107, 101, 110, 95>>
Str_id == <<105, 100>>
Str_string_literal == <<115, 116, 114, 105, 110, 103, 32, 108, 105, 116, 101, 114, 97, 108>>
Str_int_literal == <<105, 110, 116, 32, 108, 105, 116, 101, 114, 97, 108>>
Str_float_literal == <<102, 108, 111, 97, 116, 32, 108, 105, 116, 101, 114, 97, 108>>
Str_true_literal == <<116, 114, 117, 101, 32, 108, 105, 116, 101, 114, 97, 108>>
Str_false_literal == <<102, 97, 108, 115, 101, 32, 108, 105, 116, 101, 114, 97, 108>>
Str_UNKOWN == <<85, 78, 75, 79, 87, 78>>
Str_UNKNOWN == <<85, 78, 75, 78, 79, 87, 78>>

\* strlen: the number of bytes before the first zero byte of a buffer that is
\* zero terminated after its last byte.
RECURSIVE strlen(_)
strlen(s) ==
  IF s = <<>> \/ Head(s) = CH_NUL THEN 0 ELSE 1 + strlen(Tail(s))

\* strcspn(s, ".e"): the length of the prefix of s holding neither byte.
RECURSIVE strcspn_dot_e(_)
strcspn_dot_e(s) ==
  IF s = <<>> \/ Head(s) = CH_DOT \/ Head(s) = CH_e THEN 0
  ELSE 1 + strcspn_dot_e(Tail(s))

\* printf's %llu: the decimal digits of an unsigned 64 bit word.
RECURSIVE DecDigits(_)
DecDigits(w) ==
  IF w = ZeroWord THEN <<>>
  ELSE LET qr == DivModSmall(w, 10) IN Append(DecDigits(qr.q), CH_ZERO + qr.r)

fmt_llu(w) == IF w = ZeroWord THEN <<CH_ZERO>> ELSE DecDigits(w)

\* printf's %d, for the non-negative numbers token ids have.
RECURSIVE NatDigits(_)
NatDigits(n) ==
  IF n = 0 THEN <<>> ELSE Append(NatDigits(n \div 10), CH_ZERO + (n % 10))

fmt_d(n) == IF n = 0 THEN <<CH_ZERO>> ELSE NatDigits(n)

\* snprintf(buf, size, ...): at most size - 1 bytes of the formatted text are
\* stored (and a terminator); the full length is returned.
snprintf(size, text) == [stored |-> Take(text, size - 1), r |-> Len(text)]

-----------------------------------------------------------------------------
(* Token kinds (token_id of token.h) and the lexer's name table *)

TK_EOF == "TK_EOF"
TK_LEX_ERROR == "TK_LEX_ERROR"
TK_TRUE == "TK_TRUE"
TK_FALSE == "TK_FALSE"
TK_STRING == "TK_STRING"
TK_INT == "TK_INT"
TK_FLOAT == "TK_FLOAT"
TK_ID == "TK_ID"
TK_IF == "TK_IF"
TK_TEST_NO_NAME == "TK_TEST_NO_NAME"

TokenIds ==
  {TK_EOF, TK_LEX_ERROR, TK_TRUE, TK_FALSE, TK_STRING, TK_INT, TK_FLOAT, TK_ID,
   TK_IF, TK_TEST_NO_NAME}

\* The numeric value of a token_id, as "%d" prints it.
IdNumber(id) ==
  CASE id = TK_EOF -> 0
    [] id = TK_LEX_ERROR -> 1
    [] id = TK_TRUE -> 3
    [] id = TK_FALSE -> 4
    [] id = TK_STRING -> 5
    [] id = TK_INT -> 6
    [] id = TK_FLOAT -> 7
    [] id = TK_ID -> 8
    [] id = TK_IF -> 72
    [] id = TK_TEST_NO_NAME -> 250

NULL == 0
NullText == <<-1>>

\* lexer_print(id): the fixed name registered for a kind, or NULL.
lexer_print(id) ==
  CASE id = TK_TRUE -> <<116, 114, 117, 101>>
    [] id = TK_FALSE -> <<102, 97, 108, 115, 101>>
    [] id = TK_IF -> <<105, 102>>
    [] OTHER -> NullText

-----------------------------------------------------------------------------
(* The string table: equal byte sequences get the same, stable address *)

ByteCode(b) ==
  CASE b = 97 -> 1 [] b = 98 -> 2 [] b = CH_QUOTE -> 3 [] b = CH_BACKSLASH -> 4
    [] b = CH_NUL -> 5

CodeByte(c) ==
  CASE c = 1 -> 97 [] c = 2 -> 98 [] c = 3 -> CH_QUOTE [] c = 4 -> CH_BACKSLASH
    [] c = 5 -> CH_NUL

RECURSIVE StringIndex(_)
StringIndex(s) ==
  IF s = <<>> THEN 0 ELSE ByteCode(Head(s)) + 6 * StringIndex(Tail(s))

RECURSIVE IndexString(_)
IndexString(n) ==
  IF n = 0 THEN <<>>
  ELSE LET c == IF n % 6 = 0 THEN 6 ELSE n % 6
       IN  IF c = 6 THEN NullText ELSE <<CodeByte(c)>> \o IndexString((n - c) \div 6)

\* stringtab_len(value, length): the canonical address of the first length
\* bytes of value.
stringtab_len(value, length) ==
  Word(0, 32570, 7168, 8 * StringIndex(SubSeq(value, 1, length)))

\* TRUE when the word is the address of a string of the table.
IsStringPtr(w) ==
  /\ w[1] = 0 /\ w[2] = 32570 /\ w[3] = 7168 /\ w[4] % 8 = 0
  /\ LET s == IndexString(w[4] \div 8)
     IN  \A i \in 1..Len(s) : s[i] >= 0

\* The bytes stored at a string table address.
StringAt(w) == IndexString(w[4] \div 8)

-----------------------------------------------------------------------------
(* token_t *)

NullSource == "NULL"

ZeroToken ==
  [id |-> TK_EOF, source |-> NullSource, line |-> 0, pos |-> 0, printed |-> NULL,
   w0 |-> ZeroWord, w1 |-> ZeroWord]

\* The members of the anonymous union, as views of the two words it occupies.
tk_string(tk) == tk.w0
tk_str_length(tk) == tk.w1
tk_real(tk) == tk.w0
tk_integer(tk) == [low |-> tk.w0, high |-> tk.w1]

Handles == 1..MaxTokens
BufAddrs == 1..MaxTokens

NoRet == "none"
NoWritten == [has |-> {}, last |-> "none", string |-> ZeroWord,
              str_length |-> ZeroWord, real |-> ZeroWord,
              integer |-> [low |-> ZeroWord, high |-> ZeroWord]]

Init ==
  /\ tokens = [h \in Handles |-> ZeroToken]
  /\ live = {}
  /\ bufs = [b \in BufAddrs |-> <<>>]
  /\ pool64 = {}
  /\ poolFault = FALSE
  /\ call = [op |-> "start", t |-> NULL, status |-> "ok", ret |-> NoRet]
  /\ aborted = FALSE
  /\ written = [h \in Handles |-> NoWritten]

\* A failed pony_assert: the process aborts where it stands.
Abort(op, t) ==
  /\ aborted' = TRUE
  /\ call' = [op |-> op, t |-> t, status |-> "abort", ret |-> NoRet]
  /\ UNCHANGED <<tokens, live, bufs, pool64, poolFault>>

Return(op, t, ret) ==
  /\ aborted' = aborted
  /\ call' = [op |-> op, t |-> t, status |-> "ok", ret |-> ret]

token_new(id) ==
  /\ ~aborted
  /\ \E h \in Handles \ live :
       /\ tokens' = [tokens EXCEPT ![h] = [ZeroToken EXCEPT !.id = id]]
       /\ live' = live \cup {h}
       /\ Return("token_new", NULL, h)
  /\ UNCHANGED <<bufs, pool64, poolFault>>

\* Faulty variants of dup_copy: one keeps the print buffer pointer of the
\* original in the copy, one copies field by field and forgets the column.
dup_copy_keeps_printed(tk) == tk
dup_copy_forgets_pos(tk) == [tk EXCEPT !.printed = NULL, !.pos = 0]

\* memcpy of the whole struct, then the print buffer is dropped from the copy.
dup_copy(tk) == [tk EXCEPT !.printed = NULL]

token_dup(token) ==
  /\ ~aborted
  /\ IF token = NULL THEN Abort("token_dup", token)
     ELSE /\ \E h \in Handles \ live :
               /\ tokens' = [tokens EXCEPT ![h] = dup_copy(tokens[token])]
               /\ live' = live \cup {h}
               /\ Return("token_dup", token, h)
          /\ UNCHANGED <<bufs, pool64, poolFault>>

token_dup_new_id(token, id) ==
  /\ ~aborted
  /\ IF token = NULL THEN Abort("token_dup_new_id", token)
     ELSE /\ \E h \in Handles \ live :
               /\ tokens' = [tokens EXCEPT ![h] = [dup_copy(tokens[token]) EXCEPT !.id = id]]
               /\ live' = live \cup {h}
               /\ Return("token_dup_new_id", token, h)
          /\ UNCHANGED <<bufs, pool64, poolFault>>

\* Faulty variant of pool_free_printed: the print buffer is never released.
pool_free_printed_leaks(pool, p) == pool

\* ponyint_pool_free_size(64, p): the block leaves the allocated set.
pool_free_printed(pool, p) == IF p # NULL THEN pool \ {p} ELSE pool

\* The call records the print buffer handed to ponyint_pool_free_size, NULL
\* when there was none.  The bytes of a released block are no longer anyone's:
\* the model blanks them.
token_free(token) ==
  /\ ~aborted
  /\ IF token = NULL
     THEN /\ Return("token_free", token, NULL)
          /\ UNCHANGED <<tokens, live, bufs, pool64, poolFault>>
     ELSE LET p == tokens[token].printed IN
          /\ pool64' = pool_free_printed(pool64, p)
          /\ bufs' = IF p # NULL THEN [bufs EXCEPT ![p] = <<>>] ELSE bufs
          /\ poolFault' = (poolFault \/ (p # NULL /\ p \notin pool64))
          /\ live' = live \ {token}
          /\ tokens' = [tokens EXCEPT ![token] = ZeroToken]
          /\ Return("token_free", token, p)

-----------------------------------------------------------------------------
(* Read accessors *)

\* The kind each payload accessor asserts.
token_string_check(tk) == tk.id = TK_STRING \/ tk.id = TK_ID
token_string_len_check(tk) == tk.id = TK_STRING \/ tk.id = TK_ID
\* Faulty variant of token_float_check: the integer kind is let through.
token_float_check_lax(tk) == tk.id = TK_FLOAT \/ tk.id = TK_INT
token_float_check(tk) == tk.id = TK_FLOAT
token_int_check(tk) == tk.id = TK_INT
token_set_string_check(tk) == tk.id = TK_STRING \/ tk.id = TK_ID
token_set_float_check(tk) == tk.id = TK_FLOAT
token_set_int_check(tk) == tk.id = TK_INT

token_get_id(token) ==
  /\ ~aborted
  /\ IF token = NULL THEN Abort("token_get_id", token)
     ELSE /\ Return("token_get_id", token, tokens[token].id)
          /\ UNCHANGED <<tokens, live, bufs, pool64, poolFault>>

token_string(token) ==
  /\ ~aborted
  /\ IF token = NULL THEN Abort("token_string", token)
     ELSE IF ~token_string_check(tokens[token])
     THEN Abort("token_string", token)
     ELSE /\ Return("token_string", token, tk_string(tokens[token]))
          /\ UNCHANGED <<tokens, live, bufs, pool64, poolFault>>

token_string_len(token) ==
  /\ ~aborted
  /\ IF token = NULL THEN Abort("token_string_len", token)
     ELSE IF ~token_string_len_check(tokens[token])
     THEN Abort("token_string_len", token)
     ELSE /\ Return("token_string_len", token, tk_str_length(tokens[token]))
          /\ UNCHANGED <<tokens, live, bufs, pool64, poolFault>>

token_float(token) ==
  /\ ~aborted
  /\ IF token = NULL THEN Abort("token_float", token)
     ELSE IF ~token_float_check(tokens[token])
     THEN Abort("token_float", token)
     ELSE /\ Return("token_float", token, tk_real(tokens[token]))
          /\ UNCHANGED <<tokens, live, bufs, pool64, poolFault>>

token_int(token) ==
  /\ ~aborted
  /\ IF token = NULL THEN Abort("token_int", token)
     ELSE IF ~token_int_check(tokens[token])
     THEN Abort("token_int", token)
     ELSE /\ Return("token_int", token, tk_integer(tokens[token]))
          /\ UNCHANGED <<tokens, live, bufs, pool64, poolFault>>

token_source(token) ==
  /\ ~aborted
  /\ IF token = NULL THEN Abort("token_source", token)
     ELSE /\ Return("token_source", token, tokens[token].source)
          /\ UNCHANGED <<tokens, live, bufs, pool64, poolFault>>

token_line_number(token) ==
  /\ ~aborted
  /\ IF token = NULL THEN Abort("token_line_number", token)
     ELSE /\ Return("token_line_number", token, tokens[token].line)
          /\ UNCHANGED <<tokens, live, bufs, pool64, poolFault>>

token_line_position(token) ==
  /\ ~aborted
  /\ IF token = NULL THEN Abort("token_line_position", token)
     ELSE /\ Return("token_line_position", token, tokens[token].pos)
          /\ UNCHANGED <<tokens, live, bufs, pool64, poolFault>>

-----------------------------------------------------------------------------
(* Write accessors *)

token_set_id(token, id) ==
  /\ ~aborted
  /\ IF token = NULL THEN Abort("token_set_id", token)
     ELSE /\ tokens' = [tokens EXCEPT ![token].id = id]
          /\ Return("token_set_id", token, NoRet)
          /\ UNCHANGED <<live, bufs, pool64, poolFault>>

\* value is a zero terminated buffer, or NullText for a null pointer; a length
\* of 0 asks for strlen(value).
token_set_string(token, value, length) ==
  /\ ~aborted
  /\ IF token = NULL THEN Abort("token_set_string", token)
     ELSE IF ~token_set_string_check(tokens[token])
     THEN Abort("token_set_string", token)
     ELSE IF ~(value # NullText)
     THEN Abort("token_set_string", token)
     ELSE LET len == IF length = 0 THEN strlen(value) ELSE length IN
          /\ tokens' = [tokens EXCEPT
               ![token].w0 = stringtab_len(value, len),
               ![token].w1 = WordOf(len)]
          /\ Return("token_set_string", token, NoRet)
          /\ UNCHANGED <<live, bufs, pool64, poolFault>>

\* value is the IEEE 754 bit pattern of the double.
token_set_float(token, value) ==
  /\ ~aborted
  /\ IF token = NULL THEN Abort("token_set_float", token)
     ELSE IF ~token_set_float_check(tokens[token])
     THEN Abort("token_set_float", token)
     ELSE /\ tokens' = [tokens EXCEPT ![token].w0 = value]
          /\ Return("token_set_float", token, NoRet)
          /\ UNCHANGED <<live, bufs, pool64, poolFault>>

\* Faulty variant of store_integer: only the low word is copied.
store_integer_low_only(tk, value) == [tk EXCEPT !.w0 = value.low]

\* token->integer = *value: both words of the lexint_t are copied.
store_integer(tk, value) == [tk EXCEPT !.w0 = value.low, !.w1 = value.high]

token_set_int(token, value) ==
  /\ ~aborted
  /\ IF token = NULL THEN Abort("token_set_int", token)
     ELSE IF ~token_set_int_check(tokens[token])
     THEN Abort("token_set_int", token)
     ELSE /\ tokens' = [tokens EXCEPT ![token] = store_integer(@, value)]
          /\ Return("token_set_int", token, NoRet)
          /\ UNCHANGED <<live, bufs, pool64, poolFault>>

\* Faulty variant of set_pos_source: the source is always overwritten.
set_pos_source_always(old, source) == source

\* The source reference after token_set_pos: replaced only by a non-null one.
set_pos_source(old, source) == IF source # NullSource THEN source ELSE old

token_set_pos(token, source, line, pos) ==
  /\ ~aborted
  /\ IF token = NULL THEN Abort("token_set_pos", token)
     ELSE /\ tokens' = [tokens EXCEPT
               ![token].source = set_pos_source(@, source),
               ![token].line = line,
               ![token].pos = pos]
          /\ Return("token_set_pos", token, NoRet)
          /\ UNCHANGED <<live, bufs, pool64, poolFault>>

-----------------------------------------------------------------------------
(* Printing *)

\* printf's %g for the bit patterns of doubles the model uses.
fmt_g(w) ==
  CASE w = ZeroWord -> <<48>>
    [] w = Word(16384, 0, 0, 0) -> <<50>>
    [] w = Word(16154, 14050, 60188, 17197) -> <<48, 46, 48, 48, 48, 49>>
    [] w = WordOf(5) -> <<50, 46, 52, 55, 48, 51, 51, 101, 45, 51, 50, 51>>
    [] w = WordOf(123) -> <<54, 46, 48, 55, 55, 48, 49, 101, 45, 51, 50, 50>>
    [] w = MaxWord -> <<45, 110, 97, 110>>
    [] w[1] = 0 /\ w[2] = 32570 /\ w[3] = 7168 ->
         <<54, 46, 57, 49, 49, 51, 54, 101, 45, 51, 49, 48>>

\* Faulty variant of print_int: the value is printed as a 32 bit number.
print_int_32(tk) ==
  snprintf(PrintedSize,
           fmt_llu(Word(0, 0, tk_integer(tk).low[3], tk_integer(tk).low[4]))).stored

\* The text each buffered case formats into token->printed.
print_int(tk) == snprintf(PrintedSize, fmt_llu(tk_integer(tk).low)).stored

print_float(tk) ==
  LET f == snprintf(PrintedSize, fmt_g(tk_real(tk)))
  IN  IF strcspn_dot_e(f.stored) = f.r
      THEN f.stored \o snprintf(PrintedSize - f.r, <<CH_DOT, CH_ZERO>>).stored
      ELSE f.stored

print_unknown(tk) ==
  snprintf(PrintedSize, Str_Unknown_token_ \o fmt_d(IdNumber(tk.id))).stored

\* What token_print returns for a token: a static text, the token's string
\* pointer, or the text it formats into the print buffer.
print_result(tk) ==
  CASE tk.id = TK_EOF -> [from |-> "static", text |-> Str_EOF]
    [] tk.id = TK_ID \/ tk.id = TK_STRING ->
         [from |-> "string", ptr |-> tk_string(tk)]
    [] tk.id = TK_INT -> [from |-> "printed", text |-> print_int(tk)]
    [] tk.id = TK_FLOAT -> [from |-> "printed", text |-> print_float(tk)]
    [] tk.id = TK_LEX_ERROR -> [from |-> "static", text |-> Str_LEX_ERROR]
    [] OTHER ->
         IF lexer_print(tk.id) # NullText
         THEN [from |-> "static", text |-> lexer_print(tk.id)]
         ELSE [from |-> "printed", text |-> print_unknown(tk)]

\* The blocks token->printed may be after "if(printed == NULL) printed = alloc":
\* the block the token has, or any free block of the pool.
printed_block(tk, pool) ==
  IF tk.printed = NULL THEN BufAddrs \ pool ELSE {tk.printed}

\* Faulty variant of printed_content: a buffer the token already has is taken
\* as up to date and returned as it is.
printed_content_stale(tk, bs, text) ==
  IF tk.printed # NULL THEN bs[tk.printed] ELSE text

\* The content of the print buffer after snprintf wrote text into it: the
\* text, whatever the token's buffer held before.
printed_content(tk, bs, text) == text

\* The state change of token_print on a token, its buffer ending up in block b.
PrintUpdate(token, r, b) ==
  IF r.from = "printed"
  THEN /\ b \in printed_block(tokens[token], pool64)
       /\ pool64' = pool64 \cup {b}
       /\ tokens' = [tokens EXCEPT ![token].printed = b]
       /\ bufs' = [bufs EXCEPT ![b] = printed_content(tokens[token], bufs, r.text)]
       /\ UNCHANGED <<live, poolFault>>
  ELSE /\ b = NULL
       /\ UNCHANGED <<tokens, live, bufs, pool64, poolFault>>

token_print(token) ==
  /\ ~aborted
  /\ IF token = NULL THEN Abort("token_print", token)
     ELSE LET r == print_result(tokens[token]) IN
          \E b \in BufAddrs \cup {NULL} :
            /\ PrintUpdate(token, r, b)
            /\ Return("token_print", token,
                 IF r.from = "printed" THEN [from |-> "printed", ptr |-> b] ELSE r)

\* The text a token_print result points at.
PrintedText(ret, bs) ==
  CASE ret.from = "static" -> ret.text
    [] ret.from = "printed" -> bs[ret.ptr]
    [] ret.from = "string" ->
         IF IsStringPtr(ret.ptr) THEN StringAt(ret.ptr) ELSE NullText

IsEscape(c) == (c = CH_QUOTE) \/ (c = CH_BACKSLASH) \/ (c = CH_NUL)

\* The first loop of token_print_escaped: the number of bytes to escape.
RECURSIVE count_escapes(_)
count_escapes(str) ==
  IF str = <<>> THEN 0
  ELSE (IF IsEscape(Head(str)) THEN 1 ELSE 0) + count_escapes(Tail(str))

\* Faulty variant of escape_byte: the zero byte is written raw after the
\* backslash.
escape_byte_raw_nul(c) ==
  IF (c = CH_QUOTE) \/ (c = CH_BACKSLASH) \/ (c = CH_NUL) THEN <<CH_BACKSLASH, c>>
  ELSE <<c>>

\* One step of the second loop: the bytes written for one input byte.
escape_byte(c) ==
  IF (c = CH_QUOTE) \/ (c = CH_BACKSLASH) THEN <<CH_BACKSLASH, c>>
  ELSE IF c = CH_NUL THEN <<CH_BACKSLASH, CH_ZERO>>
  ELSE <<c>>

RECURSIVE escape_fill(_)
escape_fill(str) ==
  IF str = <<>> THEN <<>> ELSE escape_byte(Head(str)) \o escape_fill(Tail(str))

\* The buffer token_print_escaped returns for the bytes str: its allocated
\* size and the bytes before the terminator.
escape_result(str) ==
  LET escapes == count_escapes(str) IN
  IF escapes = 0
  THEN [size |-> Len(str) + 1, bytes |-> str]
  ELSE [size |-> Len(str) + escapes + 1, bytes |-> escape_fill(str)]

WordNat(w) == w[4]

\* The bytes token_print_escaped reads for a string token: str_length bytes
\* at the string pointer.  NullText when they are not there to be read.
string_bytes(tk) ==
  IF tk_str_length(tk) = ZeroWord THEN <<>>
  ELSE IF /\ IsStringPtr(tk_string(tk))
          /\ tk_str_length(tk)[1] = 0 /\ tk_str_length(tk)[2] = 0
          /\ tk_str_length(tk)[3] = 0
          /\ WordNat(tk_str_length(tk)) <= Len(StringAt(tk_string(tk)))
  THEN SubSeq(StringAt(tk_string(tk)), 1, WordNat(tk_str_length(tk)))
  ELSE NullText

\* Reading bytes through a pointer that is no string (null, or the payload of
\* another kind) is undefined: the process faults, or some bytes are read.
GarbageBytes == {<<>>, <<97>>, <<CH_QUOTE>>}

UndefinedRead(op, t) ==
  /\ \/ /\ aborted' = TRUE
        /\ call' = [op |-> op, t |-> t, status |-> "fault", ret |-> NoRet]
     \/ \E g \in GarbageBytes : Return(op, t, escape_result(g))
  /\ UNCHANGED <<tokens, live, bufs, pool64, poolFault>>

\* The caller owns the returned buffer.
token_print_escaped(token) ==
  /\ ~aborted
  /\ IF token = NULL THEN Abort("token_print_escaped", token)
     ELSE IF tokens[token].id = TK_STRING
     THEN IF string_bytes(tokens[token]) = NullText
          THEN UndefinedRead("token_print_escaped", token)
          ELSE /\ Return("token_print_escaped", token,
                    escape_result(string_bytes(tokens[token])))
               /\ UNCHANGED <<tokens, live, bufs, pool64, poolFault>>
     ELSE LET r == print_result(tokens[token])
              str == IF r.from = "string" THEN PrintedText(r, bufs) ELSE r.text
          IN  IF str = NullText
              THEN UndefinedRead("token_print_escaped", token)
              ELSE \E b \in BufAddrs \cup {NULL} :
                     /\ PrintUpdate(token, r, b)
                     /\ Return("token_print_escaped", token,
                          escape_result(SubSeq(str, 1, strlen(str))))

token_id_desc(id) ==
  /\ ~aborted
  /\ Return("token_id_desc", NULL,
       CASE id = TK_EOF -> Str_EOF
         [] id = TK_ID -> Str_id
         [] id = TK_STRING -> Str_string_literal
         [] id = TK_INT -> Str_int_literal
         [] id = TK_FLOAT -> Str_float_literal
         [] id = TK_TRUE -> Str_true_literal
         [] id = TK_FALSE -> Str_false_literal
         [] OTHER -> IF lexer_print(id) # NullText THEN lexer_print(id)
                     ELSE Str_UNKOWN)
  /\ UNCHANGED <<tokens, live, bufs, pool64, poolFault>>

-----------------------------------------------------------------------------
(* The record of what the payload setters stored, kept beside the program  *)
(* state for the properties that speak of "the value last written".        *)

Untracked == UNCHANGED written

TrackNew ==
  written' = IF call'.status = "ok" THEN [written EXCEPT ![call'.ret] = NoWritten]
             ELSE written

TrackFree(t) ==
  written' = IF t # NULL THEN [written EXCEPT ![t] = NoWritten] ELSE written

TrackString(t, value, length) ==
  written' = IF call'.status = "ok"
             THEN LET n == IF length = 0 THEN strlen(value) ELSE length IN
                  [written EXCEPT ![t].has = @ \cup {"string"}, ![t].last = "string",
                                  ![t].string = stringtab_len(value, n),
                                  ![t].str_length = WordOf(n)]
             ELSE written

TrackFloat(t, value) ==
  written' = IF call'.status = "ok"
             THEN [written EXCEPT ![t].has = @ \cup {"real"}, ![t].last = "real",
                                  ![t].real = value]
             ELSE written

TrackInt(t, value) ==
  written' = IF call'.status = "ok"
             THEN [written EXCEPT ![t].has = @ \cup {"integer"}, ![t].last = "integer",
                                  ![t].integer = value]
             ELSE written

-----------------------------------------------------------------------------
(* Inputs *)

Sources == {NullSource, "a.pony", "b.pony"}

Double_2 == Word(16384, 0, 0, 0)
Double_0_0001 == Word(16154, 14050, 60188, 17197)
Doubles == {Double_2, Double_0_0001}

Lexint(low, high) == [low |-> low, high |-> high]

Tokens == live \cup {NULL}

\* The (value, length) arguments of token_set_string over a set of buffers:
\* every length within the buffer, 0 for "use strlen", and the null pointer.
StringArgs(buffers) ==
  {<<NullText, 0>>} \cup
  UNION {{<<value, length>> : length \in 0..Len(value)} : value \in buffers}

\* The callers of every specification below call only with live tokens or
\* NULL: a destroyed token is never passed again.

-----------------------------------------------------------------------------
(* Spec: one token; kinds, payload setters and payload accessors *)

PayloadIds == {TK_EOF, TK_ID, TK_STRING, TK_INT, TK_FLOAT}
PayloadInts == {Lexint(WordOf(5), ZeroWord), Lexint(MaxWord, WordOf(1))}
PayloadBuffers == {<<97, 98>>, <<97, CH_NUL, 98>>}

Next ==
  \/ \E id \in PayloadIds : live = {} /\ token_new(id) /\ TrackNew
  \/ \E t \in Tokens : token_free(t) /\ TrackFree(t)
  \/ \E t \in Tokens, id \in PayloadIds : token_set_id(t, id) /\ Untracked
  \/ \E t \in Tokens, a \in StringArgs(PayloadBuffers) :
       token_set_string(t, a[1], a[2]) /\ TrackString(t, a[1], a[2])
  \/ \E t \in Tokens, value \in Doubles : token_set_float(t, value) /\ TrackFloat(t, value)
  \/ \E t \in Tokens, value \in PayloadInts : token_set_int(t, value) /\ TrackInt(t, value)
  \/ \E t \in Tokens, source \in {NullSource, "a.pony"} :
       token_set_pos(t, source, 1, 2) /\ Untracked
  \/ \E t \in Tokens : token_get_id(t) /\ Untracked
  \/ \E t \in Tokens : token_string(t) /\ Untracked
  \/ \E t \in Tokens : token_string_len(t) /\ Untracked
  \/ \E t \in Tokens : token_float(t) /\ Untracked
  \/ \E t \in Tokens : token_int(t) /\ Untracked

Spec == Init /\ [][Next]_vars

-----------------------------------------------------------------------------
(* SpecPrint: one token; kinds, payload setters and token_print *)

PrintIds == {TK_EOF, TK_LEX_ERROR, TK_ID, TK_INT, TK_FLOAT, TK_IF, TK_TEST_NO_NAME}
PrintInts == {Lexint(WordOf(5), ZeroWord), Lexint(WordOf(123), WordOf(1))}
PrintBuffers == {<<97, 98>>}

NextPrint ==
  \/ \E id \in PrintIds : live = {} /\ token_new(id) /\ Untracked
  \/ \E t \in Tokens : token_free(t) /\ Untracked
  \/ \E t \in Tokens, id \in PrintIds : token_set_id(t, id) /\ Untracked
  \/ \E t \in Tokens, a \in StringArgs(PrintBuffers) :
       token_set_string(t, a[1], a[2]) /\ Untracked
  \/ \E t \in Tokens, value \in Doubles : token_set_float(t, value) /\ Untracked
  \/ \E t \in Tokens, value \in PrintInts : token_set_int(t, value) /\ Untracked
  \/ \E t \in Tokens : token_print(t) /\ Untracked

SpecPrint == Init /\ [][NextPrint]_vars

-----------------------------------------------------------------------------
(* SpecInt: one integer token; integer values over the whole 64 bit range *)

Pow10_19 == Word(35527, 8964, 35304, 0)

IntLows ==
  {ZeroWord, WordOf(9), WordOf(10), WordOf(LimbMax), Word(0, 0, 1, 0),
   Word(0, 0, LimbMax, LimbMax), Word(0, 1, 0, 0), Pow10_19,
   Word(LimbMax, LimbMax, LimbMax, LimbMax - 1), MaxWord}
IntHighs == {ZeroWord, WordOf(1), MaxWord}

NextInt ==
  \/ live = {} /\ token_new(TK_INT) /\ Untracked
  \/ \E t \in Tokens : token_free(t) /\ Untracked
  \/ \E t \in Tokens, low \in IntLows, high \in IntHighs :
       token_set_int(t, Lexint(low, high)) /\ Untracked
  \/ \E t \in Tokens : token_int(t) /\ Untracked
  \/ \E t \in Tokens : token_print(t) /\ Untracked

SpecInt == Init /\ [][NextInt]_vars

-----------------------------------------------------------------------------
(* SpecDup: several tokens; duplication, kinds, payload and position setters *)

DupIds == {TK_ID, TK_INT, TK_IF}

NextDup ==
  \/ \E id \in {TK_ID, TK_INT} : token_new(id) /\ Untracked
  \/ \E t \in Tokens : token_dup(t) /\ Untracked
  \/ \E t \in Tokens, id \in {TK_IF, TK_INT} : token_dup_new_id(t, id) /\ Untracked
  \/ \E t \in Tokens : token_free(t) /\ Untracked
  \/ \E t \in Tokens, id \in {TK_ID, TK_INT} : token_set_id(t, id) /\ Untracked
  \/ \E t \in Tokens : token_set_string(t, <<97>>, 1) /\ Untracked
  \/ \E t \in Tokens : token_set_int(t, Lexint(WordOf(7), ZeroWord)) /\ Untracked
  \/ \E t \in Tokens : token_set_pos(t, "a.pony", 1, 2) /\ Untracked

SpecDup == Init /\ [][NextDup]_vars

-----------------------------------------------------------------------------
(* SpecCache: several tokens; duplication, mutation, printing, destruction *)

NextCache ==
  \/ token_new(TK_INT) /\ Untracked
  \/ \E t \in Tokens : token_dup(t) /\ Untracked
  \/ \E t \in Tokens : token_dup_new_id(t, TK_TEST_NO_NAME) /\ Untracked
  \/ \E t \in Tokens : token_free(t) /\ Untracked
  \/ \E t \in Tokens, id \in {TK_INT, TK_TEST_NO_NAME} : token_set_id(t, id) /\ Untracked
  \/ \E t \in Tokens : token_set_int(t, Lexint(WordOf(7), ZeroWord)) /\ Untracked
  \/ \E t \in Tokens : token_print(t) /\ Untracked

SpecCache == Init /\ [][NextCache]_vars

-----------------------------------------------------------------------------
(* SpecPos: one token; positions *)

NextPos ==
  \/ \E id \in {TK_ID, TK_INT} : live = {} /\ token_new(id) /\ Untracked
  \/ \E t \in Tokens : token_free(t) /\ Untracked
  \/ \E t \in Tokens : token_set_int(t, Lexint(WordOf(7), ZeroWord)) /\ Untracked
  \/ \E t \in Tokens : token_print(t) /\ Untracked
  \/ \E t \in Tokens, source \in Sources, line \in 0..MaxLine, pos \in 0..MaxLine :
       token_set_pos(t, source, line, pos) /\ Untracked
  \/ \E t \in Tokens : token_source(t) /\ Untracked
  \/ \E t \in Tokens : token_line_number(t) /\ Untracked
  \/ \E t \in Tokens : token_line_position(t) /\ Untracked

SpecPos == Init /\ [][NextPos]_vars

-----------------------------------------------------------------------------
(* SpecEsc: one token; string texts over the bytes to escape, escaping and *)
(* kind descriptions                                                       *)

EscBytes == {97, CH_QUOTE, CH_BACKSLASH, CH_NUL}
EscBuffers == UNION {[1..n -> EscBytes] : n \in 0..MaxStrLen}
EscIds == {TK_STRING, TK_ID, TK_EOF, TK_TEST_NO_NAME}

NextEsc ==
  \/ \E id \in EscIds : live = {} /\ token_new(id) /\ Untracked
  \/ \E t \in Tokens : token_free(t) /\ Untracked
  \/ \E t \in Tokens, value \in EscBuffers :
       token_set_string(t, value, Len(value)) /\ Untracked
  \/ \E t \in Tokens : token_print_escaped(t) /\ Untracked
  \/ \E id \in TokenIds : token_id_desc(id) /\ Untracked

SpecEsc == Init /\ [][NextEsc]_vars

-----------------------------------------------------------------------------
(* C1 *)

KindChecked ==
  {"token_string", "token_string_len", "token_set_string", "token_float",
   "token_set_float", "token_int", "token_set_int"}

AllowedKinds(op) ==
  CASE op \in {"token_string", "token_string_len", "token_set_string"} ->
         {TK_ID, TK_STRING}
    [] op \in {"token_float", "token_set_float"} -> {TK_FLOAT}
    [] op \in {"token_int", "token_set_int"} -> {TK_INT}

PassesKindCheck(op, t) == t # NULL /\ tokens[t].id \in AllowedKinds(op)

AbortChangesNothing ==
  call'.status = "abort" => UNCHANGED <<tokens, live, bufs, pool64, poolFault>>

\* C1 as stated: every call of a kind-checked accessor or setter succeeds
\* exactly when the token is non-null and its kind is in the accessor's allowed
\* set, and aborts otherwise; an aborted call changes no token field.
C1_AsStated ==
  [][/\ call'.op \in KindChecked =>
          ((call'.status = "ok") <=> PassesKindCheck(call'.op, call'.t))
     /\ AbortChangesNothing]_vars

\* C1 amended: as stated, except that token_set_string also aborts, on a token
\* of an allowed kind, when the bytes pointer it is given is null.  Every other
\* kind-checked call succeeds exactly when the token is non-null and of an
\* allowed kind; a call with a null token aborts; an aborted call changes no
\* token field.
C1_KindContract ==
  [][/\ call'.op \in KindChecked \ {"token_set_string"} =>
          ((call'.status = "ok") <=> PassesKindCheck(call'.op, call'.t))
     /\ \A t \in Tokens, a \in StringArgs(PayloadBuffers) :
          token_set_string(t, a[1], a[2]) =>
            ((call'.status = "ok") <=>
               (PassesKindCheck("token_set_string", t) /\ a[1] # NullText))
     /\ call'.t = NULL /\ call'.op \notin {"token_new", "token_free", "token_id_desc"} =>
          call'.status = "abort"
     /\ AbortChangesNothing]_vars

\* A kind-checked read aborted on a live token of the wrong kind, and
\* token_set_string aborted on a string token.
C1_Witness ==
  /\ call.op = "token_set_string" /\ call.status = "abort"
  /\ call.t # NULL /\ tokens[call.t].id = TK_STRING

-----------------------------------------------------------------------------
(* C2 *)

ReadsBack(op, variant, value) ==
  (call.op = op /\ call.status = "ok" /\ variant \in written[call.t].has)
    => call.ret = value

\* C2 as stated: a payload accessor whose kind check passes returns the value
\* last written through its own setter, whatever set_kind calls and setters of
\* the other payload variants came in between.
C2_AsStated ==
  /\ ReadsBack("token_string", "string", written[call.t].string)
  /\ ReadsBack("token_string_len", "string", written[call.t].str_length)
  /\ ReadsBack("token_float", "real", written[call.t].real)
  /\ ReadsBack("token_int", "integer", written[call.t].integer)

ReadsBackLast(op, variant, value) ==
  (call.op = op /\ call.status = "ok" /\ written[call.t].last = variant)
    => call.ret = value

\* C2 amended: a payload accessor whose kind check passes returns the value
\* last written through its own setter provided no setter of another payload
\* variant was called on the token since that write; set_kind and set_position
\* calls in between do not matter.
C2_ReadsBackLastWritten ==
  /\ ReadsBackLast("token_string", "string", written[call.t].string)
  /\ ReadsBackLast("token_string_len", "string", written[call.t].str_length)
  /\ ReadsBackLast("token_float", "real", written[call.t].real)
  /\ ReadsBackLast("token_int", "integer", written[call.t].integer)

\* token_int read back an integer after the kind was changed to float, a real
\* was written, and the kind and the integer were set again.
C2_Witness ==
  /\ call.op = "token_int" /\ call.status = "ok"
  /\ written[call.t].last = "integer" /\ "real" \in written[call.t].has
  /\ call.ret.high # ZeroWord

-----------------------------------------------------------------------------
(* C3 *)

OtherTokens(t) == (live \cap live') \ {t}

NoSharedCache ==
  \A t, u \in live :
    (t # u /\ tokens[t].printed # NULL) => tokens[t].printed # tokens[u].printed

DupStartsWithoutCache ==
  (call'.op \in {"token_dup", "token_dup_new_id"} /\ call'.status = "ok")
    => (call'.ret \notin live /\ tokens'[call'.ret].printed = NULL)

OtherCachesUntouched ==
  \A u \in OtherTokens(call'.t) :
    /\ tokens'[u].printed = tokens[u].printed
    /\ tokens[u].printed # NULL => bufs'[tokens[u].printed] = bufs[tokens[u].printed]

\* C3: no two live tokens ever hold the same print buffer; a duplicate starts
\* with no print buffer; and no call on one token changes the print buffer, or
\* its content, of another live token.
C3_CacheNeverShared ==
  [][NoSharedCache' /\ DupStartsWithoutCache /\ OtherCachesUntouched]_vars

\* An original and its duplicate both hold a print buffer, with different
\* content, after one of them was mutated and printed again.
C3_Witness ==
  /\ call.op = "token_print" /\ call.status = "ok"
  /\ \E t, u \in live :
       /\ t # u /\ tokens[t].printed # NULL /\ tokens[u].printed # NULL
       /\ bufs[tokens[t].printed] # bufs[tokens[u].printed]
       /\ tokens[t].id = TK_INT /\ tokens[u].id = TK_INT

-----------------------------------------------------------------------------
(* C4 *)

SameButKindAndCache(a, b) ==
  /\ a.source = b.source /\ a.line = b.line /\ a.pos = b.pos
  /\ a.w0 = b.w0 /\ a.w1 = b.w1

OldTokensUnchanged == \A u \in live : tokens'[u] = tokens[u]

DupCopies ==
  \A t \in live :
    (token_dup(t) /\ call'.status = "ok") =>
      /\ call'.ret \notin live /\ live' = live \cup {call'.ret}
      /\ SameButKindAndCache(tokens'[call'.ret], tokens[t])
      /\ tokens'[call'.ret].id = tokens[t].id
      /\ OldTokensUnchanged

DupNewIdCopies ==
  \A t \in live, id \in DupIds :
    (token_dup_new_id(t, id) /\ call'.status = "ok") =>
      /\ call'.ret \notin live /\ live' = live \cup {call'.ret}
      /\ SameButKindAndCache(tokens'[call'.ret], tokens[t])
      /\ tokens'[call'.ret].id = id
      /\ OldTokensUnchanged

SettersLeaveOthersAlone ==
  call'.op \in {"token_set_id", "token_set_string", "token_set_int", "token_set_pos"}
    => \A u \in live \ {call'.t} : tokens'[u] = tokens[u]

\* C4: token_dup returns a new token with the kind, source, line, column and
\* payload of the original; token_dup_new_id the same with the kind replaced by
\* the given one; both leave every token that existed unchanged; and a later
\* set_kind or setter call on one token changes no other token.
C4_DupCopiesAndIsIndependent ==
  [][DupCopies /\ DupNewIdCopies /\ SettersLeaveOthersAlone]_vars

\* An identifier token with text and position was duplicated as a keyword.
C4_Witness ==
  /\ call.op = "token_dup_new_id" /\ call.status = "ok"
  /\ tokens[call.t].id = TK_ID /\ tokens[call.ret].id = TK_IF
  /\ tokens[call.ret].line = 1 /\ tokens[call.ret].pos = 2
  /\ tokens[call.ret].w0 # ZeroWord /\ tokens[call.ret].source = "a.pony"

-----------------------------------------------------------------------------
(* C10 *)

OwnedBuffers == {tokens[t].printed : t \in live} \ {NULL}

PoolBalanced == pool64 = OwnedBuffers /\ ~poolFault /\ NoSharedCache

PrintAllocatesOnce ==
  /\ \A t \in live \cap live' :
       tokens[t].printed # NULL => tokens'[t].printed = tokens[t].printed
  /\ call'.op = "token_print" /\ call'.status = "ok" =>
       /\ tokens[call'.t].printed # NULL => pool64' = pool64
       /\ tokens[call'.t].printed = NULL =>
            (pool64' = pool64 \/
             (tokens'[call'.t].printed \notin pool64 /\
              pool64' = pool64 \cup {tokens'[call'.t].printed}))

FreeReleases ==
  call'.op = "token_free" =>
    /\ call'.status = "ok"
    /\ call'.t = NULL =>
         (call'.ret = NULL /\ UNCHANGED <<tokens, live, bufs, pool64, poolFault>>)
    /\ call'.t # NULL =>
         /\ call'.ret = tokens[call'.t].printed
         /\ live' = live \ {call'.t}
         /\ pool64' = pool64 \ {tokens[call'.t].printed}

\* C10: token_print allocates a print buffer for a token only while the token
\* has none, and the token keeps that buffer until it is destroyed; token_free
\* releases the token's buffer, if any, and the token; so the allocated buffers
\* are always exactly the buffers of the live tokens, each owned by one token,
\* and no block is released that is not allocated; token_free(NULL) releases
\* nothing and returns.
C10_PoolBalanced ==
  [][PoolBalanced' /\ PrintAllocatesOnce /\ FreeReleases]_vars

\* The last live token was destroyed with its print buffer: no token is left
\* and every block is back in the pool.
C10_Witness ==
  /\ call.op = "token_free" /\ call.status = "ok" /\ call.t # NULL
  /\ call.ret # NULL /\ live = {} /\ pool64 = {}

-----------------------------------------------------------------------------
(* C9 *)

\* C9: token_set_pos on a token sets line and column to the values given,
\* replaces the source only when the source given is non-null and keeps the
\* old source otherwise, and changes neither the kind, the payload, the print
\* buffer and its content, nor any other token.
C9_SetPosFrame ==
  [][call'.op = "token_set_pos" =>
     \A t \in live, source \in Sources, line \in 0..MaxLine, pos \in 0..MaxLine :
       token_set_pos(t, source, line, pos) =>
         /\ call'.status = "ok"
         /\ tokens'[t].line = line /\ tokens'[t].pos = pos
         /\ source # NullSource => tokens'[t].source = source
         /\ source = NullSource => tokens'[t].source = tokens[t].source
         /\ tokens'[t].id = tokens[t].id
         /\ tokens'[t].w0 = tokens[t].w0 /\ tokens'[t].w1 = tokens[t].w1
         /\ tokens'[t].printed = tokens[t].printed
         /\ UNCHANGED <<bufs, pool64, live>>
         /\ \A u \in live \ {t} : tokens'[u] = tokens[u]]_vars

\* A token that has a source, a payload and a print buffer was given a new
\* line and column.
C9_Witness ==
  /\ call.op = "token_set_pos" /\ call.status = "ok"
  /\ tokens[call.t].source = "a.pony" /\ tokens[call.t].line = 2
  /\ tokens[call.t].pos = 1 /\ tokens[call.t].printed # NULL
  /\ tokens[call.t].w0 # ZeroWord

-----------------------------------------------------------------------------
(* C7 *)

IsDigit(c) == c >= CH_ZERO /\ c <= CH_ZERO + 9

\* The 64 bit value of a string of decimal digits; NullText when the text is
\* no such string or the value does not fit.
RECURSIVE ParseDecimalFrom(_, _)
ParseDecimalFrom(text, acc) ==
  IF text = <<>> THEN acc
  ELSE IF ~IsDigit(Head(text)) \/ MulAddOverflows(acc, 10, Head(text) - CH_ZERO)
  THEN NullText
  ELSE ParseDecimalFrom(Tail(text), MulAddSmall(acc, 10, Head(text) - CH_ZERO))

ParseDecimal(text) == IF text = <<>> THEN NullText ELSE ParseDecimalFrom(text, ZeroWord)

\* text is the decimal numeral of w: digits only, no leading zero, value w.
IsNumeralOf(text, w) ==
  /\ ParseDecimal(text) = w
  /\ Len(text) > 1 => text[1] # CH_ZERO

\* C7: token_print on an integer token returns, in the token's print buffer,
\* the decimal numeral of the low 64 bit word of the value, whatever the high
\* word is: digits only, no sign, no leading zero, "0" for 0.
C7_IntegerDigits ==
  (call.op = "token_print" /\ call.status = "ok" /\ tokens[call.t].id = TK_INT) =>
    /\ call.ret.from = "printed"
    /\ IsNumeralOf(PrintedText(call.ret, bufs), tk_integer(tokens[call.t]).low)
    /\ tk_integer(tokens[call.t]).low = ZeroWord =>
         PrintedText(call.ret, bufs) = <<CH_ZERO>>

\* The largest 64 bit value, under a non-zero high word, printed as
\* 18446744073709551615.
C7_Witness ==
  /\ call.op = "token_print" /\ call.status = "ok"
  /\ tk_integer(tokens[call.t]).low = MaxWord
  /\ tk_integer(tokens[call.t]).high = WordOf(1)
  /\ PrintedText(call.ret, bufs) =
       <<49, 56, 52, 52, 54, 55, 52, 52, 48, 55, 51, 55, 48, 57, 53, 53, 49, 54, 49, 53>>

-----------------------------------------------------------------------------
(* C6 *)

\* The kinds whose text token_print formats into the print buffer.
Buffered(tk) ==
  \/ tk.id \in {TK_INT, TK_FLOAT}
  \/ tk.id \notin {TK_EOF, TK_ID, TK_STRING, TK_LEX_ERROR} /\ lexer_print(tk.id) = NullText

HasDotOrE(text) == \E i \in 1..Len(text) : text[i] = CH_DOT \/ text[i] = CH_e

\* text is the rendering of the token's current kind and payload.
IsRenderingOf(text, tk) ==
  CASE tk.id = TK_EOF -> text = Str_EOF
    [] tk.id = TK_LEX_ERROR -> text = Str_LEX_ERROR
    [] tk.id \in {TK_ID, TK_STRING} ->
         text = (IF IsStringPtr(tk.w0) THEN StringAt(tk.w0) ELSE NullText)
    [] tk.id = TK_INT -> IsNumeralOf(text, tk.w0)
    [] tk.id = TK_FLOAT ->
         /\ HasDotOrE(text)
         /\ text = (IF HasDotOrE(fmt_g(tk.w0)) THEN fmt_g(tk.w0)
                    ELSE fmt_g(tk.w0) \o <<CH_DOT, CH_ZERO>>)
    [] OTHER ->
         IF lexer_print(tk.id) # NullText THEN text = lexer_print(tk.id)
         ELSE text = Str_Unknown_token_ \o fmt_d(IdNumber(tk.id))

\* C6 as stated: the text token_print returns is the rendering of the token's
\* current kind and payload, and it is the content held in the token's print
\* buffer.
C6_AsStated ==
  (call.op = "token_print" /\ call.status = "ok") =>
    /\ IsRenderingOf(PrintedText(call.ret, bufs), tokens[call.t])
    /\ tokens[call.t].printed # NULL
    /\ bufs[tokens[call.t].printed] = PrintedText(call.ret, bufs)

\* C6 amended: the text token_print returns is always the rendering of the
\* token's current kind and payload, never what an earlier call left in the
\* print buffer.  For the integer and float kinds and for kinds without a
\* registered name the text is written to the token's print buffer and
\* returned from there.  For the end-of-file, identifier, string, lexical-error
\* and named kinds the fixed or interned text is returned and the print buffer
\* is neither created nor changed.  Nothing else of the token changes.
C6_PrintIsCurrent ==
  [][(call'.op = "token_print" /\ call'.status = "ok") =>
       LET t == call'.t
           text == PrintedText(call'.ret, bufs')
       IN  /\ tokens' = [tokens EXCEPT ![t].printed = tokens'[t].printed]
           /\ IsRenderingOf(text, tokens[t])
           /\ Buffered(tokens[t]) =>
                /\ call'.ret.from = "printed"
                /\ call'.ret.ptr = tokens'[t].printed
                /\ tokens'[t].printed # NULL
                /\ bufs'[tokens'[t].printed] = text
           /\ ~Buffered(tokens[t]) =>
                /\ call'.ret.from # "printed"
                /\ call'.ret.from = "string" => call'.ret.ptr = tokens[t].w0
                /\ tokens'[t].printed = tokens[t].printed
                /\ bufs' = bufs]_vars

\* A float token that held an integer before was printed as "2.0".
C6_Witness ==
  /\ call.op = "token_print" /\ call.status = "ok"
  /\ tokens[call.t].id = TK_FLOAT /\ tokens[call.t].w0 = Double_2
  /\ tokens[call.t].w1 = WordOf(1)
  /\ PrintedText(call.ret, bufs) = <<50, CH_DOT, CH_ZERO>>

-----------------------------------------------------------------------------
(* C5 *)

\* The bytes an escaped text stands for; NullText when the text holds a raw
\* quote or zero byte, a backslash that starts none of the three escapes, or a
\* trailing backslash.
RECURSIVE Unescape(_)
Unescape(out) ==
  IF out = <<>> THEN <<>>
  ELSE IF Head(out) = CH_QUOTE \/ Head(out) = CH_NUL THEN NullText
  ELSE IF Head(out) # CH_BACKSLASH
  THEN LET rest == Unescape(Tail(out))
       IN  IF rest = NullText THEN NullText ELSE <<Head(out)>> \o rest
  ELSE IF Len(out) < 2 \/ out[2] \notin {CH_QUOTE, CH_BACKSLASH, CH_ZERO} THEN NullText
  ELSE LET rest == Unescape(SubSeq(out, 3, Len(out)))
           c == IF out[2] = CH_ZERO THEN CH_NUL ELSE out[2]
       IN  IF rest = NullText THEN NullText ELSE <<c>> \o rest

SpecialCount(src) ==
  Cardinality({i \in 1..Len(src) : src[i] \in {CH_QUOTE, CH_BACKSLASH, CH_NUL}})

\* The text of a string token: str_length bytes at its string pointer.
TextOf(tk) == SubSeq(StringAt(tk.w0), 1, WordNat(tk.w1))

\* C5: for a string token whose text is n bytes of which e are a double quote,
\* a backslash or a zero byte, token_print_escaped returns n + e bytes and a
\* terminator; they hold each double quote as backslash quote, each backslash
\* as two backslashes, each zero byte as backslash '0' and every other byte as
\* it is, in order, so that undoing the escapes gives the n bytes back; with
\* e = 0 the bytes returned are a copy of the text.
C5_EscapeRoundTrip ==
  (call.op = "token_print_escaped" /\ call.status = "ok"
     /\ tokens[call.t].id = TK_STRING) =>
    LET src == TextOf(tokens[call.t])
        out == call.ret.bytes
    IN  /\ Len(out) = Len(src) + SpecialCount(src)
        /\ call.ret.size = Len(out) + 1
        /\ Unescape(out) = src
        /\ SpecialCount(src) = 0 => out = src

\* The text quote, backslash, zero byte was escaped to six bytes.
C5_Witness ==
  /\ call.op = "token_print_escaped" /\ call.status = "ok"
  /\ tokens[call.t].id = TK_STRING
  /\ TextOf(tokens[call.t]) = <<CH_QUOTE, CH_BACKSLASH, CH_NUL>>
  /\ call.ret.bytes =
       <<CH_BACKSLASH, CH_QUOTE, CH_BACKSLASH, CH_BACKSLASH, CH_BACKSLASH, CH_ZERO>>

-----------------------------------------------------------------------------
(* C8 *)

\* The description the claim gives each kind.
DescribedKind(id) ==
  CASE id = TK_EOF -> Str_EOF
    [] id = TK_ID -> Str_id
    [] id = TK_STRING -> Str_string_literal
    [] id = TK_INT -> Str_int_literal
    [] id = TK_FLOAT -> Str_float_literal
    [] id = TK_TRUE -> Str_true_literal
    [] id = TK_FALSE -> Str_false_literal
    [] OTHER -> IF lexer_print(id) # NullText THEN lexer_print(id) ELSE Str_UNKNOWN

\* C8: token_id_desc returns the fixed noun phrase of the end-of-file,
\* identifier, string, integer, float and boolean kinds, the registered name
\* of any other kind that has one, and exactly "UNKNOWN" for a kind that has
\* none.
C8_AsStated ==
  [][\A id \in TokenIds : token_id_desc(id) => call'.ret = DescribedKind(id)]_vars

====
